---- MODULE Spec2Model ----
(***************************************************************************)
(* Model of the chat store of ai-chat-streamer (src/stores/chatStore.ts):  *)
(* the message list, the streaming state with its pending buffer, and the  *)
(* seven store actions.                                                    *)
(*                                                                         *)
(* Strings are sequences of tokens.  A token stands for a run of one       *)
(* character that no other token uses, of the fixed length TokenLen gives  *)
(* it, so a sequence of tokens denotes exactly one string, `+` on strings  *)
(* is \o on sequences and `.length` is StrLen.  This keeps the real        *)
(* MAX_BUFFER_SIZE of 50000 while the sequences stay short.                *)
(***************************************************************************)
EXTENDS Integers, Sequences, FiniteSets, TLC

\* ------------------------------------------------------------------ bounds
MaxTokens == 3      \* tokens held by the pending buffer and all messages together
MaxMsgs == 2        \* messages ever created (ids handed out by nanoid)
MaxTime == 1        \* distinct readings of Date.now()

\* ------------------------------------------------------------- text model
Tokens == {"q", "H"}

TokenLen(t) == CASE t = "q" -> 25000
                 [] t = "H" -> 60000
                 [] t = "g" -> 106     \* the text of ChatInput's Generate button

RECURSIVE StrLen(_)
StrLen(s) == IF s = <<>> THEN 0 ELSE TokenLen(Head(s)) + StrLen(Tail(s))

EmptyStr == <<>>

\* the fragments a caller passes: '', 25000 chars (two of them reach the
\* ceiling exactly), 60000 chars (one of them exceeds it)
Chunks == {EmptyStr} \cup {<<t>> : t \in Tokens}

\* the texts a user sends
UserTexts == {EmptyStr, <<"q">>}

\* Array.prototype.join('') of a list of strings
RECURSIVE Join(_)
Join(parts) == IF parts = <<>> THEN EmptyStr ELSE Head(parts) \o Join(Tail(parts))

\* ------------------------------------------------------------ store state
NoId == 0           \* streamingMessageId: null

MAX_BUFFER_SIZE == 50000

VARIABLES
  messages,         \* Message[]: [meta |-> [id, role, status, timestamp], content]
  streaming,        \* StreamingState: [isStreaming, streamingMessageId, pendingContent]
  idSeq,            \* number of ids nanoid() has handed out
  lastCall,         \* the store action that returned last: [op, arg, outcome]
  run,              \* the stream begun by the last startAssistantMessage
  mark,             \* the last flushStreamBuffer call of the active stream
  mock,             \* closure of createMockStreamingController, with its config
  timers,           \* handles of the intervals setInterval keeps firing
  rafQueue,         \* handles of the frame callbacks requestAnimationFrame holds
  effects,          \* the handler that ran last and the calls it made, in order
  api,              \* closure of createApiStreamingController
  runs,             \* the start() calls of the API controller, each an async run
  view,             \* VirtualizedMessageList: its refs and what it rendered last
  scrollEvt,        \* the step of the list that ran last, and what it saw
  painted,          \* what the list computed last for its rows: a height or a display string
  chat,             \* ChatInput: streamingControllerRef and the controllers it created
  aborted           \* the AbortControllers (one per run) abort() was called on

storeVars == <<messages, streaming, idSeq, lastCall, run, mark>>

envVars == <<mock, timers, rafQueue, effects, api, runs, aborted, view, scrollEvt, painted,
            chat>>

vars == <<messages, streaming, idSeq, lastCall, run, mark,
          mock, timers, rafQueue, effects, api, runs, aborted, view, scrollEvt, painted,
          chat>>

Store == [messages |-> messages, streaming |-> streaming]

\* nanoid(): an id that was never handed out before
nanoid == idSeq + 1

\* Date.now()
Clock == 1..MaxTime

\* messages.findIndex((m) => m.meta.id === id), 0 for -1
findIndex(msgs, id) ==
  IF \E i \in 1..Len(msgs) : msgs[i].meta.id = id
  THEN CHOOSE i \in 1..Len(msgs) :
         /\ msgs[i].meta.id = id
         /\ \A j \in 1..(i - 1) : msgs[j].meta.id # id
  ELSE 0

\* ------------------------------------------------------- the store actions
\* variant: the set() call rebuilds the streaming state, as the next action does
addUserMessage_dropBuffer(st, id, now, content) ==
  LET message == [meta |-> [id |-> id, role |-> "user", status |-> "complete",
                            timestamp |-> now],
                  content |-> content]
  IN [messages |-> Append(st.messages, message),
      streaming |-> [st.streaming EXCEPT !.pendingContent = EmptyStr]]

addUserMessage(st, id, now, content) ==
  LET message == [meta |-> [id |-> id, role |-> "user", status |-> "complete",
                            timestamp |-> now],
                  content |-> content]
  IN [st EXCEPT !.messages = Append(st.messages, message)]

\* variant: streaming: {...state.streaming, isStreaming, streamingMessageId}
startAssistantMessage_keepBuffer(st, id, now) ==
  LET message == [meta |-> [id |-> id, role |-> "assistant", status |-> "streaming",
                            timestamp |-> now],
                  content |-> EmptyStr]
  IN [messages |-> Append(st.messages, message),
      streaming |-> [st.streaming EXCEPT !.isStreaming = TRUE,
                                         !.streamingMessageId = id]]

\* variant: messages: [message, ...state.messages]
startAssistantMessage_prepend(st, id, now) ==
  LET message == [meta |-> [id |-> id, role |-> "assistant", status |-> "streaming",
                            timestamp |-> now],
                  content |-> EmptyStr]
  IN [messages |-> <<message>> \o st.messages,
      streaming |-> [isStreaming |-> TRUE,
                     streamingMessageId |-> id,
                     pendingContent |-> EmptyStr]]

\* variant: the new message starts with what the pending buffer holds
startAssistantMessage_seedContent(st, id, now) ==
  LET message == [meta |-> [id |-> id, role |-> "assistant", status |-> "streaming",
                            timestamp |-> now],
                  content |-> st.streaming.pendingContent]
  IN [messages |-> Append(st.messages, message),
      streaming |-> [isStreaming |-> TRUE,
                     streamingMessageId |-> id,
                     pendingContent |-> EmptyStr]]

startAssistantMessage(st, id, now) ==
  LET message == [meta |-> [id |-> id, role |-> "assistant", status |-> "streaming",
                            timestamp |-> now],
                  content |-> EmptyStr]
  IN [messages |-> Append(st.messages, message),
      streaming |-> [isStreaming |-> TRUE,
                     streamingMessageId |-> id,
                     pendingContent |-> EmptyStr]]

\* variant: the merge writes the buffer over the content instead of appending it
flushStreamBuffer_overwrite(st) ==
  LET messageIndex == findIndex(st.messages, st.streaming.streamingMessageId)
  IN IF st.streaming.streamingMessageId = NoId \/ st.streaming.pendingContent = EmptyStr
        \/ messageIndex = 0
     THEN st
     ELSE [messages |-> [st.messages EXCEPT
                           ![messageIndex].content = st.streaming.pendingContent],
           streaming |-> [st.streaming EXCEPT !.pendingContent = EmptyStr]]

\* variant: the merge leaves the pending buffer as it was
flushStreamBuffer_keepBuffer(st) ==
  LET messageIndex == findIndex(st.messages, st.streaming.streamingMessageId)
  IN IF st.streaming.streamingMessageId = NoId \/ st.streaming.pendingContent = EmptyStr
        \/ messageIndex = 0
     THEN st
     ELSE [st EXCEPT !.messages[messageIndex].content = @ \o st.streaming.pendingContent]

\* variant: the merge puts the buffer in front of the content
flushStreamBuffer_prepend(st) ==
  LET messageIndex == findIndex(st.messages, st.streaming.streamingMessageId)
  IN IF st.streaming.streamingMessageId = NoId \/ st.streaming.pendingContent = EmptyStr
        \/ messageIndex = 0
     THEN st
     ELSE [messages |-> [st.messages EXCEPT
                           ![messageIndex].content = st.streaming.pendingContent \o @],
           streaming |-> [st.streaming EXCEPT !.pendingContent = EmptyStr]]

flushStreamBuffer(st) ==
  LET messageIndex == findIndex(st.messages, st.streaming.streamingMessageId)
      pendingContent == st.streaming.pendingContent
  IN IF st.streaming.streamingMessageId = NoId \/ st.streaming.pendingContent = EmptyStr
     THEN st
     ELSE IF messageIndex = 0
     THEN st
     ELSE LET currentContent == st.messages[messageIndex].content
              newContent == IF StrLen(currentContent) > 100000
                            THEN Join(<<currentContent, pendingContent>>)
                            ELSE currentContent \o pendingContent
          IN [messages |-> [st.messages EXCEPT ![messageIndex].content = newContent],
              streaming |-> [st.streaming EXCEPT !.pendingContent = EmptyStr]]

\* variant: the ceiling check is missing, the buffer is never flushed by an append
appendToStream_noCeiling(st, chunk) ==
  [st EXCEPT !.streaming.pendingContent = @ \o chunk]

\* variant: every append flushes, whatever the length of the buffer
appendToStream_eager(st, chunk) ==
  [flushStreamBuffer(st) EXCEPT !.streaming.pendingContent = @ \o chunk]

\* variant: the chunk is added to the buffer as it was read before the flush
appendToStream_stale(st, chunk) ==
  LET flushed == IF StrLen(st.streaming.pendingContent) > MAX_BUFFER_SIZE
                 THEN flushStreamBuffer(st)
                 ELSE st
  IN [flushed EXCEPT !.streaming.pendingContent = st.streaming.pendingContent \o chunk]

\* variant: the chunk is added first and the forced flush merges it as well
appendToStream_flushLast(st, chunk) ==
  LET added == [st EXCEPT !.streaming.pendingContent = @ \o chunk]
  IN IF StrLen(st.streaming.pendingContent) > MAX_BUFFER_SIZE
     THEN flushStreamBuffer(added)
     ELSE added

appendToStream(st, chunk) ==
  LET flushed == IF StrLen(st.streaming.pendingContent) > MAX_BUFFER_SIZE
                 THEN flushStreamBuffer(st)
                 ELSE st
  IN [flushed EXCEPT !.streaming.pendingContent = @ \o chunk]

\* variant: the remaining buffer is not flushed before the status changes
completeStream_noFlush(st) ==
  LET messageIndex == findIndex(st.messages, st.streaming.streamingMessageId)
  IN IF st.streaming.streamingMessageId = NoId \/ messageIndex = 0
     THEN st
     ELSE [messages |-> [st.messages EXCEPT ![messageIndex].meta.status = "complete"],
           streaming |-> [isStreaming |-> FALSE,
                          streamingMessageId |-> NoId,
                          pendingContent |-> EmptyStr]]

\* variant: the active-stream reference survives the completion
completeStream_keepRef(st) ==
  LET flushed == flushStreamBuffer(st)
      messageIndex == findIndex(st.messages, st.streaming.streamingMessageId)
  IN IF st.streaming.streamingMessageId = NoId \/ messageIndex = 0
     THEN flushed
     ELSE [messages |-> [flushed.messages EXCEPT ![messageIndex].meta.status = "complete"],
           streaming |-> [flushed.streaming EXCEPT !.isStreaming = FALSE]]

\* variant: the streaming state is reset also when no stream is active
completeStream_alwaysReset(st) ==
  LET flushed == flushStreamBuffer(st)
      messageIndex == findIndex(st.messages, st.streaming.streamingMessageId)
      reset == [isStreaming |-> FALSE,
                streamingMessageId |-> NoId,
                pendingContent |-> EmptyStr]
  IN IF st.streaming.streamingMessageId = NoId \/ messageIndex = 0
     THEN [messages |-> flushed.messages, streaming |-> reset]
     ELSE [messages |-> [flushed.messages EXCEPT ![messageIndex].meta.status = "complete"],
           streaming |-> reset]

completeStream(st) ==
  LET flushed == flushStreamBuffer(st)
      \* the snapshot taken by get() before the flush
      messageIndex == findIndex(st.messages, st.streaming.streamingMessageId)
  IN IF st.streaming.streamingMessageId = NoId
     THEN flushed
     ELSE IF messageIndex = 0
     THEN flushed
     ELSE [messages |-> [flushed.messages EXCEPT ![messageIndex].meta.status = "complete"],
           streaming |-> [isStreaming |-> FALSE,
                          streamingMessageId |-> NoId,
                          pendingContent |-> EmptyStr]]

stopStream(st) == completeStream(st)

\* variant: streaming: {...state.streaming, isStreaming: false, streamingMessageId: null}
clearMessages_keepBuffer(st) ==
  [messages |-> <<>>,
   streaming |-> [st.streaming EXCEPT !.isStreaming = FALSE,
                                      !.streamingMessageId = NoId]]

\* variant: streaming: {...state.streaming, streamingMessageId: null, pendingContent: ''}
clearMessages_keepFlag(st) ==
  [messages |-> <<>>,
   streaming |-> [st.streaming EXCEPT !.streamingMessageId = NoId,
                                      !.pendingContent = EmptyStr]]

\* variant: streaming: {...state.streaming, pendingContent: ''}
clearMessages_keepRef(st) ==
  [messages |-> <<>>,
   streaming |-> [st.streaming EXCEPT !.pendingContent = EmptyStr]]

clearMessages(st) ==
  [messages |-> <<>>,
   streaming |-> [isStreaming |-> FALSE,
                  streamingMessageId |-> NoId,
                  pendingContent |-> EmptyStr]]

\* ----------------------------------------------------------- observations
\* the message the active-stream reference points at, and its content
StreamingIndex == findIndex(messages, streaming.streamingMessageId)

StreamingContent ==
  IF StreamingIndex = 0 THEN EmptyStr ELSE messages[StreamingIndex].content

\* tokens stored in the pending buffer and in the contents of all messages
RECURSIVE ContentTokens(_)
ContentTokens(msgs) ==
  IF msgs = <<>> THEN 0 ELSE Len(Head(msgs).content) + ContentTokens(Tail(msgs))

TotalTokens == Len(streaming.pendingContent) + ContentTokens(messages)

NoRun == [id |-> NoId, fragments |-> EmptyStr, open |-> FALSE]

NoMark == [valid |-> FALSE, content |-> EmptyStr, fragments |-> EmptyStr,
           appended |-> EmptyStr]

\* every store action returns normally: the source has no throw statement
Returned(op, arg) == [op |-> op, arg |-> arg, outcome |-> "returned"]

StoreInit ==
  /\ messages = <<>>
  /\ streaming = [isStreaming |-> FALSE,
                  streamingMessageId |-> NoId,
                  pendingContent |-> EmptyStr]
  /\ idSeq = 0
  /\ lastCall = Returned("create", EmptyStr)
  /\ run = NoRun
  /\ mark = NoMark

\* ------------------------------------------------ the mock stream controller
NoHandle == 0       \* chunkTimer / rafId: null

\* config of the controller: wordsPerChunk and totalWords (0 = unbounded);
\* chunkInterval only sets the pace of the timer
MockConfigs == {[wordsPerChunk |-> 3, totalWords |-> 0],
                [wordsPerChunk |-> 2, totalWords |-> 3]}

MockCreated(config) ==
  [isRunning |-> FALSE, chunkTimer |-> NoHandle, rafId |-> NoHandle,
   wordsGenerated |-> 0, chunksSinceBreak |-> 0, config |-> config]

NoEffects == [handler |-> "none", calls |-> <<>>]

NoRunRef == 0       \* abortController: null

ApiCreated == [isRunning |-> FALSE, abortController |-> NoRunRef, rafId |-> NoHandle]

ApiIdle ==
  /\ api = ApiCreated
  /\ runs = <<>>
  /\ aborted = {}

MockIdle ==
  /\ mock = MockCreated([wordsPerChunk |-> 3, totalWords |-> 0])
  /\ timers = {}

\* the list after its first render, with no messages: useRef(false),
\* useRef(true), the dependencies of its effects, no frame requested
ViewMounted ==
  [isUserScrollingRef |-> FALSE, wasAtBottomRef |-> TRUE,
   isStreaming |-> FALSE, count |-> 0, lastLength |-> 0, rafId |-> NoHandle]

\* userId: the user message added since the render before, NoId for none
NoScrollEvt ==
  [kind |-> "none", atBottom |-> TRUE, before |-> FALSE, scrolled |-> FALSE,
   userId |-> NoId]

\* no row was measured or painted yet
NoPaint == [op |-> "none"]

\* ChatInput after its first render: useRef(null), no controller created yet;
\* timerOwner and rafOwner give the controller whose callback a handle runs
ChatMounted ==
  [ref |-> 0, controllers |-> <<>>, timerOwner |-> <<>>, rafOwner |-> <<>>]

ViewIdle ==
  /\ view = ViewMounted
  /\ scrollEvt = NoScrollEvt
  /\ painted = NoPaint
  /\ chat = ChatMounted

\* no controller is at work: the state of the collaborators in Spec
EnvIdle ==
  /\ MockIdle
  /\ ApiIdle
  /\ ViewIdle
  /\ rafQueue = {}
  /\ effects = NoEffects

Init == StoreInit /\ EnvIdle

Call_addUserMessage ==
  /\ UNCHANGED envVars
  /\ idSeq < MaxMsgs
  /\ \E content \in UserTexts, now \in Clock :
       /\ TotalTokens + Len(content) <= MaxTokens
       /\ LET st == addUserMessage(Store, nanoid, now, content)
          IN /\ messages' = st.messages
             /\ streaming' = st.streaming
             /\ lastCall' = Returned("addUserMessage", content)
  /\ idSeq' = idSeq + 1
  /\ UNCHANGED <<run, mark>>

Call_startAssistantMessage ==
  /\ UNCHANGED envVars
  /\ idSeq < MaxMsgs
  /\ \E now \in Clock :
       LET st == startAssistantMessage(Store, nanoid, now)
       IN /\ messages' = st.messages
          /\ streaming' = st.streaming
  /\ idSeq' = idSeq + 1
  /\ lastCall' = Returned("startAssistantMessage", EmptyStr)
  /\ run' = [id |-> nanoid, fragments |-> EmptyStr, open |-> TRUE]
  /\ mark' = NoMark

Call_appendToStream ==
  \E chunk \in Chunks :
    /\ TotalTokens + Len(chunk) <= MaxTokens
    /\ LET st == appendToStream(Store, chunk)
       IN /\ messages' = st.messages
          /\ streaming' = st.streaming
    /\ lastCall' = Returned("appendToStream", chunk)
    /\ run' = IF run.open THEN [run EXCEPT !.fragments = @ \o chunk] ELSE run
    /\ mark' = IF mark.valid THEN [mark EXCEPT !.fragments = @ \o chunk] ELSE mark
    /\ UNCHANGED idSeq
    /\ UNCHANGED envVars

Call_flushStreamBuffer ==
  /\ UNCHANGED envVars
  /\ LET st == flushStreamBuffer(Store)
         i == findIndex(st.messages, st.streaming.streamingMessageId)
     IN /\ messages' = st.messages
        /\ streaming' = st.streaming
        /\ mark' = IF st.streaming.isStreaming /\ i # 0
                   THEN [valid |-> TRUE,
                         content |-> st.messages[i].content,
                         fragments |-> EmptyStr,
                         appended |-> IF mark.valid THEN mark.fragments ELSE EmptyStr]
                   ELSE NoMark
  /\ lastCall' = Returned("flushStreamBuffer", EmptyStr)
  /\ UNCHANGED <<idSeq, run>>

Call_completeStream ==
  /\ UNCHANGED envVars
  /\ LET st == completeStream(Store)
     IN /\ messages' = st.messages
        /\ streaming' = st.streaming
  /\ lastCall' = Returned("completeStream", EmptyStr)
  /\ run' = [run EXCEPT !.open = FALSE]
  /\ mark' = NoMark
  /\ UNCHANGED idSeq

Call_stopStream ==
  /\ UNCHANGED envVars
  /\ LET st == stopStream(Store)
     IN /\ messages' = st.messages
        /\ streaming' = st.streaming
  /\ lastCall' = Returned("stopStream", EmptyStr)
  /\ run' = [run EXCEPT !.open = FALSE]
  /\ mark' = NoMark
  /\ UNCHANGED idSeq

Call_clearMessages ==
  /\ UNCHANGED envVars
  /\ LET st == clearMessages(Store)
     IN /\ messages' = st.messages
        /\ streaming' = st.streaming
  /\ lastCall' = Returned("clearMessages", EmptyStr)
  /\ run' = NoRun
  /\ mark' = NoMark
  /\ UNCHANGED idSeq

Next ==
  \/ Call_addUserMessage
  \/ Call_startAssistantMessage
  \/ Call_appendToStream
  \/ Call_flushStreamBuffer
  \/ Call_completeStream
  \/ Call_stopStream
  \/ Call_clearMessages

Spec == Init /\ [][Next]_vars

\* ---------------------------------------------- handlers of the mock controller
\* chunksSinceBreak > 30 + Math.random() * 20
BREAK_AFTER == 30
BREAK_SPREAD == 20

\* texts ContentGenerator returns: never empty (words end in ' ', breaks in '\n\n')
MockChunks == {<<t>> : t \in Tokens}

\* what a handler works on: the store, the closure and the browser's queues
Sys == [store |-> Store, mock |-> mock, timers |-> timers, rafQueue |-> rafQueue,
        api |-> api, runs |-> runs, aborted |-> aborted, calls |-> <<>>]

Called(sys, op, arg) == [sys EXCEPT !.calls = Append(@, [op |-> op, arg |-> arg])]

\* a handle setInterval / requestAnimationFrame has not in use
FreshHandle(used) == CHOOSE h \in 1..(Cardinality(used) + 1) : h \notin used

\* variant: stop leaves the pending frame callback in the queue
mockStop_noCancel(sys) ==
  IF ~sys.mock.isRunning
  THEN sys
  ELSE LET s1 == [sys EXCEPT !.mock.isRunning = FALSE]
           s2 == IF s1.mock.chunkTimer # NoHandle
                 THEN Called([s1 EXCEPT !.timers = @ \ {s1.mock.chunkTimer},
                                        !.mock.chunkTimer = NoHandle],
                             "clearInterval", EmptyStr)
                 ELSE s1
       IN Called([s2 EXCEPT !.store = completeStream(@)], "completeStream", EmptyStr)

\* variant: stop has no `if (!isRunning) return`
mockStop_noGuard(sys) ==
  LET s1 == [sys EXCEPT !.mock.isRunning = FALSE]
      s2 == IF s1.mock.chunkTimer # NoHandle
            THEN Called([s1 EXCEPT !.timers = @ \ {s1.mock.chunkTimer},
                                   !.mock.chunkTimer = NoHandle],
                        "clearInterval", EmptyStr)
            ELSE s1
      s3 == IF s2.mock.rafId # NoHandle
            THEN Called([s2 EXCEPT !.rafQueue = @ \ {s2.mock.rafId},
                                   !.mock.rafId = NoHandle],
                        "cancelAnimationFrame", EmptyStr)
            ELSE s2
  IN Called([s3 EXCEPT !.store = completeStream(@)], "completeStream", EmptyStr)

mockStop(sys) ==
  IF ~sys.mock.isRunning
  THEN sys
  ELSE LET s1 == [sys EXCEPT !.mock.isRunning = FALSE]
           s2 == IF s1.mock.chunkTimer # NoHandle
                 THEN Called([s1 EXCEPT !.timers = @ \ {s1.mock.chunkTimer},
                                        !.mock.chunkTimer = NoHandle],
                             "clearInterval", EmptyStr)
                 ELSE s1
           s3 == IF s2.mock.rafId # NoHandle
                 THEN Called([s2 EXCEPT !.rafQueue = @ \ {s2.mock.rafId},
                                        !.mock.rafId = NoHandle],
                             "cancelAnimationFrame", EmptyStr)
                 ELSE s2
       IN Called([s3 EXCEPT !.store = completeStream(@)], "completeStream", EmptyStr)

\* the frame callback; the browser has taken its handle out of the queue
mockRafLoop(sys) ==
  IF ~sys.mock.isRunning
  THEN sys
  ELSE LET s1 == Called([sys EXCEPT !.store = flushStreamBuffer(@)],
                        "flushStreamBuffer", EmptyStr)
           h == FreshHandle(s1.rafQueue)
       IN Called([s1 EXCEPT !.rafQueue = @ \cup {h}, !.mock.rafId = h],
                 "requestAnimationFrame", EmptyStr)

\* the interval callback; random is Math.random() * 20 rounded down, wordChunk
\* and breakChunk are what the generator would return
\* variant: a word chunk is not counted (no wordsGenerated += wordsPerChunk)
mockInterval_noCount(sys, random, wordChunk, breakChunk) ==
  IF ~sys.mock.isRunning
  THEN sys
  ELSE IF sys.mock.config.totalWords > 0
          /\ sys.mock.wordsGenerated >= sys.mock.config.totalWords
  THEN mockStop(sys)
  ELSE IF sys.mock.chunksSinceBreak > BREAK_AFTER + random
  THEN Called([sys EXCEPT !.mock.chunksSinceBreak = 0,
                          !.store = appendToStream(@, breakChunk)],
              "appendToStream", breakChunk)
  ELSE Called([sys EXCEPT !.mock.chunksSinceBreak = @ + 1,
                          !.store = appendToStream(@, wordChunk)],
              "appendToStream", wordChunk)

mockInterval(sys, random, wordChunk, breakChunk) ==
  IF ~sys.mock.isRunning
  THEN sys
  ELSE IF sys.mock.config.totalWords > 0
          /\ sys.mock.wordsGenerated >= sys.mock.config.totalWords
  THEN mockStop(sys)
  ELSE IF sys.mock.chunksSinceBreak > BREAK_AFTER + random
  THEN Called([sys EXCEPT !.mock.chunksSinceBreak = 0,
                          !.store = appendToStream(@, breakChunk)],
              "appendToStream", breakChunk)
  ELSE Called([sys EXCEPT !.mock.chunksSinceBreak = @ + 1,
                          !.mock.wordsGenerated = @ + sys.mock.config.wordsPerChunk,
                          !.store = appendToStream(@, wordChunk)],
              "appendToStream", wordChunk)

mockStart(sys, id, now) ==
  IF sys.mock.isRunning
  THEN sys
  ELSE LET s1 == Called([sys EXCEPT !.mock.isRunning = TRUE,
                                    !.mock.wordsGenerated = 0,
                                    !.mock.chunksSinceBreak = 0,
                                    !.store = startAssistantMessage(@, id, now)],
                        "startAssistantMessage", EmptyStr)
           t == FreshHandle(s1.timers)
           s2 == Called([s1 EXCEPT !.timers = @ \cup {t}, !.mock.chunkTimer = t],
                        "setInterval", EmptyStr)
           h == FreshHandle(s2.rafQueue)
       IN Called([s2 EXCEPT !.rafQueue = @ \cup {h}, !.mock.rafId = h],
                 "requestAnimationFrame", EmptyStr)

StoreOps == {"addUserMessage", "startAssistantMessage", "appendToStream",
             "flushStreamBuffer", "completeStream", "stopStream", "clearMessages"}

\* the names of the calls, in order
RECURSIVE Ops(_)
Ops(calls) == IF calls = <<>> THEN <<>> ELSE <<Head(calls).op>> \o Ops(Tail(calls))

\* the last store action among the calls, or the one before them
RECURSIVE LastStoreCall(_, _)
LastStoreCall(before, calls) ==
  IF calls = <<>> THEN before
  ELSE LastStoreCall(IF Head(calls).op \in StoreOps
                     THEN Returned(Head(calls).op, Head(calls).arg)
                     ELSE before,
                     Tail(calls))

\* the stream of the last startAssistantMessage after the calls; id is the id
\* a startAssistantMessage among them was given
RECURSIVE RunAfter(_, _, _)
RunAfter(r, calls, id) ==
  IF calls = <<>> THEN r
  ELSE LET c == Head(calls)
           next == CASE c.op = "startAssistantMessage"
                          -> [id |-> id, fragments |-> EmptyStr, open |-> TRUE]
                     [] c.op = "appendToStream" /\ r.open
                          -> [r EXCEPT !.fragments = @ \o c.arg]
                     [] c.op \in {"completeStream", "stopStream"}
                          -> [r EXCEPT !.open = FALSE]
                     [] c.op = "clearMessages" -> NoRun
                     [] OTHER -> r
       IN RunAfter(next, Tail(calls), id)

\* the state a handler leaves behind
Commit(s, handler, id) ==
  /\ messages' = s.store.messages
  /\ streaming' = s.store.streaming
  /\ mock' = s.mock
  /\ timers' = s.timers
  /\ rafQueue' = s.rafQueue
  /\ api' = s.api
  /\ aborted' = s.aborted
  /\ effects' = [handler |-> handler, calls |-> s.calls]
  /\ lastCall' = LastStoreCall(lastCall, s.calls)
  /\ run' = RunAfter(run, s.calls, id)
  /\ UNCHANGED <<mark, view, scrollEvt, painted, chat>>

\* the state a step of the API controller leaves behind
ApiCommit(s) ==
  /\ messages' = s.store.messages
  /\ streaming' = s.store.streaming
  /\ rafQueue' = s.rafQueue
  /\ api' = s.api
  /\ aborted' = s.aborted
  /\ runs' = s.runs
  /\ UNCHANGED <<mock, timers, effects, lastCall, run, mark, view, scrollEvt, painted,
                 chat>>

MockInit ==
  /\ StoreInit
  /\ \E config \in MockConfigs : mock = MockCreated(config)
  /\ timers = {}
  /\ rafQueue = {}
  /\ effects = NoEffects
  /\ ApiIdle
  /\ ViewIdle

Mock_start ==
  /\ mock.isRunning \/ idSeq < MaxMsgs
  /\ \E now \in Clock : Commit(mockStart(Sys, nanoid, now), "start", nanoid)
  /\ idSeq' = IF mock.isRunning THEN idSeq ELSE idSeq + 1
  /\ UNCHANGED runs

Mock_stop ==
  /\ Commit(mockStop(Sys), "stop", NoId)
  /\ UNCHANGED <<idSeq, runs>>

Mock_interval ==
  /\ \E t \in timers, random \in 0..(BREAK_SPREAD - 1),
        wordChunk \in MockChunks, breakChunk \in MockChunks :
       /\ TotalTokens < MaxTokens
            \/ ~mock.isRunning
            \/ (mock.config.totalWords > 0
                  /\ mock.wordsGenerated >= mock.config.totalWords)
       /\ Commit(mockInterval(Sys, random, wordChunk, breakChunk), "interval", NoId)
  /\ UNCHANGED <<idSeq, runs>>

Mock_rafLoop ==
  /\ \E h \in rafQueue :
       Commit(mockRafLoop([Sys EXCEPT !.rafQueue = @ \ {h}]), "rafLoop", NoId)
  /\ UNCHANGED <<idSeq, runs>>

MockNext ==
  \/ Mock_start
  \/ Mock_stop
  \/ Mock_interval
  \/ Mock_rafLoop

MockSpec == MockInit /\ [][MockNext]_vars

\* setInterval keeps calling the callback while the timer is not cleared
MockFairSpec == MockInit /\ [][MockNext]_vars /\ WF_vars(Mock_interval)

\* ------------------------------------------------ the API stream controller
MaxRead == 6        \* symbols one reader.read() delivers at most

\* A response body is a sequence of symbols: "N" is '\n', "P" is the prefix
\* 'data: ', "Jq" and "JH" are JSON texts whose choices[0].delta.content is the
\* chunk <<"q">> or <<"H">>, "Z" is a JSON text without that content, "X" is
\* text JSON.parse rejects, "E" is '[DONE]'.  The server may end the body after
\* any symbol (Api_readSettled), so the bodies are these texts and their
\* prefixes, those that end in a line without a newline included.
Bodies ==
  { <<"P", "X", "N", "P", "Jq", "N">>,
    <<"P", "Z", "N", "N", "Jq", "N", "P", "E", "N", "P", "JH", "N">> }

\* what fetch() can settle with while the signal is not aborted
FetchOutcomes == {"ok", "httpError", "noBody", "networkError"}

\* buffer.split('\n'): the pieces between the newlines, at least one
RECURSIVE SplitLines(_, _)
SplitLines(text, piece) ==
  IF text = <<>> THEN <<piece>>
  ELSE IF Head(text) = "N" THEN <<piece>> \o SplitLines(Tail(text), <<>>)
  ELSE SplitLines(Tail(text), Append(piece, Head(text)))

\* JSON.parse(data) does not throw
JsonValid(data) == Len(data) = 1 /\ data[1] \in {"Jq", "JH", "Z"}

\* json.choices?.[0]?.delta?.content, empty for undefined
DeltaContent(data) ==
  CASE data[1] = "Jq" -> <<"q">>
    [] data[1] = "JH" -> <<"H">>
    [] OTHER -> EmptyStr

\* an invocation of start() at its first await; net is what the server has
\* still to send, sent what it has sent, appended the chunks the invocation
\* has passed to appendToStream
NewRun(id) ==
  [pc |-> "fetch", buffer |-> EmptyStr, msgId |-> id,
   net |-> EmptyStr, sent |-> EmptyStr, appended |-> EmptyStr]

\* the body of the for loop over the lines of a read
apiProcessLine(sys, line) ==
  IF line # <<>> /\ Head(line) = "P"
  THEN LET data == Tail(line)
       IN IF data = <<"E">> THEN sys
          ELSE IF JsonValid(data)
          THEN IF DeltaContent(data) # EmptyStr
               THEN Called([sys EXCEPT !.store = appendToStream(@, DeltaContent(data))],
                           "appendToStream", DeltaContent(data))
               ELSE sys
          ELSE sys
  ELSE sys

\* variant: the try/catch is around the loop, a malformed line ends it
RECURSIVE apiProcessLines_stopAtMalformed(_, _)
apiProcessLines_stopAtMalformed(sys, lines) ==
  IF lines = <<>> THEN sys
  ELSE IF Head(lines) # <<>> /\ Head(Head(lines)) = "P"
          /\ Tail(Head(lines)) # <<"E">> /\ ~JsonValid(Tail(Head(lines)))
  THEN sys
  ELSE apiProcessLines_stopAtMalformed(apiProcessLine(sys, Head(lines)), Tail(lines))

\* variant: `if (data === '[DONE]') break;` ends the loop over the lines
RECURSIVE apiProcessLines_stopAtDone(_, _)
apiProcessLines_stopAtDone(sys, lines) ==
  IF lines = <<>> THEN sys
  ELSE IF Head(lines) = <<"P", "E">>
  THEN sys
  ELSE apiProcessLines_stopAtDone(apiProcessLine(sys, Head(lines)), Tail(lines))

RECURSIVE apiProcessLines(_, _)
apiProcessLines(sys, lines) ==
  IF lines = <<>> THEN sys
  ELSE apiProcessLines(apiProcessLine(sys, Head(lines)), Tail(lines))

\* finally { isRunning = false; if (rafId) cancelAnimationFrame(rafId); }
apiFinally(sys, r) ==
  LET s1 == [sys EXCEPT !.api.isRunning = FALSE,
                        !.runs[r] = [NewRun(@.msgId) EXCEPT !.pc = "done"]]
  IN IF s1.api.rafId # NoHandle
     THEN Called([s1 EXCEPT !.rafQueue = @ \ {s1.api.rafId}],
                 "cancelAnimationFrame", EmptyStr)
     ELSE s1

\* catch (error) { ... completeStream(); } and the finally block
apiCatch(sys, r, errorName) ==
  LET s1 == IF errorName # "AbortError"
            THEN Called(sys, "console.error", EmptyStr)
            ELSE sys
      s2 == Called([s1 EXCEPT !.store = completeStream(@)], "completeStream", EmptyStr)
  IN apiFinally(s2, r)

\* start() up to its first await
apiStart(sys, id, now) ==
  IF sys.api.isRunning
  THEN sys
  ELSE LET r == Len(sys.runs) + 1
           s1 == [sys EXCEPT !.api.isRunning = TRUE, !.api.abortController = r]
           s2 == Called([s1 EXCEPT !.store = startAssistantMessage(@, id, now)],
                        "startAssistantMessage", EmptyStr)
           h == FreshHandle(s2.rafQueue)
           s3 == Called([s2 EXCEPT !.rafQueue = @ \cup {h}, !.api.rafId = h],
                        "requestAnimationFrame", EmptyStr)
       IN Called([s3 EXCEPT !.runs = Append(@, NewRun(id))], "fetch", EmptyStr)

apiStop(sys) ==
  LET s1 == IF sys.api.abortController # NoRunRef
            THEN Called([sys EXCEPT !.aborted = @ \cup {sys.api.abortController},
                                    !.api.abortController = NoRunRef],
                        "abort", EmptyStr)
            ELSE sys
  IN [s1 EXCEPT !.api.isRunning = FALSE]

apiRafLoop(sys) ==
  IF ~sys.api.isRunning
  THEN sys
  ELSE LET s1 == Called([sys EXCEPT !.store = flushStreamBuffer(@)],
                        "flushStreamBuffer", EmptyStr)
           h == FreshHandle(s1.rafQueue)
       IN Called([s1 EXCEPT !.rafQueue = @ \cup {h}, !.api.rafId = h],
                 "requestAnimationFrame", EmptyStr)

\* run r resumes after `await fetch(...)`
apiFetchSettled(sys, r, outcome) ==
  CASE outcome = "AbortError" -> apiCatch(sys, r, "AbortError")
    [] outcome = "ok" -> [sys EXCEPT !.runs[r].pc = "read", !.runs[r].buffer = EmptyStr]
    [] OTHER -> apiCatch(sys, r, "Error")

\* variant: buffer = '' after the split, the incomplete line is not kept
apiReadSettled_dropPartial(sys, r, result, chunk) ==
  CASE result = "AbortError" -> apiCatch(sys, r, "AbortError")
    [] result = "error" -> apiCatch(sys, r, "Error")
    [] result = "done" ->
         apiFinally(Called([sys EXCEPT !.store = completeStream(@)],
                           "completeStream", EmptyStr), r)
    [] OTHER ->
         LET pieces == SplitLines(sys.runs[r].buffer \o chunk, <<>>)
             lines == SubSeq(pieces, 1, Len(pieces) - 1)
             s1 == [sys EXCEPT !.runs[r].buffer = EmptyStr]
         IN apiProcessLines(s1, lines)

\* run r resumes after `await reader.read()`; result is "value", "done",
\* "AbortError" or "error", chunk is decoder.decode(value)
apiReadSettled(sys, r, result, chunk) ==
  CASE result = "AbortError" -> apiCatch(sys, r, "AbortError")
    [] result = "error" -> apiCatch(sys, r, "Error")
    [] result = "done" ->
         apiFinally(Called([sys EXCEPT !.store = completeStream(@)],
                           "completeStream", EmptyStr), r)
    [] OTHER ->
         LET pieces == SplitLines(sys.runs[r].buffer \o chunk, <<>>)
             lines == SubSeq(pieces, 1, Len(pieces) - 1)
             s1 == [sys EXCEPT !.runs[r].buffer = pieces[Len(pieces)]]
         IN apiProcessLines(s1, lines)

\* the chunks of the appendToStream calls among the calls, in order
RECURSIVE AppendedBy(_)
AppendedBy(calls) ==
  IF calls = <<>> THEN EmptyStr
  ELSE (IF Head(calls).op = "appendToStream" THEN Head(calls).arg ELSE EmptyStr)
         \o AppendedBy(Tail(calls))

\* the content deltas of the well-formed 'data: ' lines among the pieces of a
\* text, the piece after the last newline left out
RECURSIVE DeltasOf(_)
DeltasOf(pieces) ==
  IF Len(pieces) <= 1 THEN EmptyStr
  ELSE (CASE Head(pieces) = <<"P", "Jq">> -> <<"q">>
          [] Head(pieces) = <<"P", "JH">> -> <<"H">>
          [] OTHER -> EmptyStr) \o DeltasOf(Tail(pieces))

ApiInit ==
  /\ StoreInit
  /\ MockIdle
  /\ ApiIdle
  /\ ViewIdle
  /\ timers = {}
  /\ rafQueue = {}
  /\ effects = NoEffects

\* Date.now() plays no part in the controller: one reading
ApiClock == {1}

Api_start ==
  /\ api.isRunning \/ idSeq < MaxMsgs
  /\ \E now \in ApiClock : ApiCommit(apiStart(Sys, nanoid, now))
  /\ idSeq' = IF api.isRunning THEN idSeq ELSE idSeq + 1

Api_stop ==
  /\ ApiCommit(apiStop(Sys))
  /\ UNCHANGED idSeq

Api_rafLoop ==
  /\ \E h \in rafQueue : ApiCommit(apiRafLoop([Sys EXCEPT !.rafQueue = @ \ {h}]))
  /\ UNCHANGED idSeq

\* the server answers an "ok" fetch with one of the bodies
Api_fetchSettled ==
  /\ \E r \in 1..Len(runs) :
       /\ runs[r].pc = "fetch"
       /\ \E outcome \in (IF r \in aborted THEN {"AbortError"} ELSE FetchOutcomes) :
            LET s == apiFetchSettled(Sys, r, outcome)
            IN IF outcome = "ok"
               THEN \E body \in Bodies : ApiCommit([s EXCEPT !.runs[r].net = body])
               ELSE ApiCommit(s)
  /\ UNCHANGED idSeq

Api_readSettled ==
  /\ \E r \in 1..Len(runs) :
       /\ runs[r].pc = "read"
       /\ \/ /\ r \in aborted
             /\ ApiCommit(apiReadSettled(Sys, r, "AbortError", EmptyStr))
          \/ /\ r \notin aborted
             /\ ApiCommit(apiReadSettled(Sys, r, "error", EmptyStr))
          \/ /\ r \notin aborted
             /\ ApiCommit(apiReadSettled(Sys, r, "done", EmptyStr))
          \/ /\ r \notin aborted
             /\ \E n \in 1..MaxRead :
                  /\ n <= Len(runs[r].net)
                  /\ LET chunk == SubSeq(runs[r].net, 1, n)
                         s == apiReadSettled(Sys, r, "value", chunk)
                     IN /\ TotalTokens + Len(AppendedBy(s.calls)) <= MaxTokens
                        /\ ApiCommit([s EXCEPT
                                        !.runs[r].net = SubSeq(@, n + 1, Len(@)),
                                        !.runs[r].sent = @ \o chunk,
                                        !.runs[r].appended = @ \o AppendedBy(s.calls)])
  /\ UNCHANGED idSeq

ApiNext ==
  \/ Api_start
  \/ Api_stop
  \/ Api_rafLoop
  \/ Api_fetchSettled
  \/ Api_readSettled

ApiSpec == ApiInit /\ [][ApiNext]_vars

\* ------------------------------------------------ the virtualized message list
MaxListMsgs == 3    \* messages ever created while the list is observed

SCROLL_THRESHOLD == 100

\* the scroll container when a scroll event is handled
Geometries ==
  {[scrollHeight |-> 1000, clientHeight |-> 400, scrollTop |-> top] :
     top \in {0, 500, 501, 600}}

isAtBottom(parent) ==
  parent.scrollHeight - parent.scrollTop - parent.clientHeight < SCROLL_THRESHOLD

\* what the list works on: its refs, the browser's frame queue, and whether
\* scrollToBottom() has scrolled
Ui == [view |-> view, rafQueue |-> rafQueue, scrolled |-> FALSE]

\* messages[messages.length - 1]?.content.length || 0
LastLength(st) ==
  IF st.messages = <<>> THEN 0 ELSE StrLen(st.messages[Len(st.messages)].content)

\* if (messages.length > 0) virtualizer.scrollToIndex(messages.length - 1, ...)
scrollToBottom(ui, count) ==
  IF count > 0 THEN [ui EXCEPT !.scrolled = TRUE] ELSE ui

handleScroll(ui, parent) ==
  LET atBottom == isAtBottom(parent)
      u1 == IF ~atBottom /\ ui.view.wasAtBottomRef
            THEN [ui EXCEPT !.view.isUserScrollingRef = TRUE]
            ELSE ui
      u2 == IF atBottom /\ u1.view.isUserScrollingRef
            THEN [u1 EXCEPT !.view.isUserScrollingRef = FALSE]
            ELSE u1
  IN [u2 EXCEPT !.view.wasAtBottomRef = atBottom]

\* the auto-scroll effect: the cleanup of its last run, then its body
autoScrollEffect(ui, st) ==
  LET u1 == IF ui.view.rafId # NoHandle
            THEN [ui EXCEPT !.rafQueue = @ \ {ui.view.rafId}, !.view.rafId = NoHandle]
            ELSE ui
      contentSize == LastLength(st)
      shouldScroll == contentSize < 50000 \/ contentSize % 1000 < 100
      h == FreshHandle(u1.rafQueue)
  IN IF st.streaming.isStreaming /\ ~u1.view.isUserScrollingRef /\ shouldScroll
     THEN [u1 EXCEPT !.rafQueue = @ \cup {h}, !.view.rafId = h]
     ELSE u1

\* the effect on a new user message
userMessageEffect(ui, st) ==
  IF st.messages # <<>> /\ st.messages[Len(st.messages)].meta.role = "user"
  THEN scrollToBottom([ui EXCEPT !.view.isUserScrollingRef = FALSE], Len(st.messages))
  ELSE ui

\* a render of the list with the store's state st, and the effects whose
\* dependencies changed since the render before
render(ui, st) ==
  LET v == ui.view
      lengthChanged == Len(st.messages) # v.count
      u1 == IF \/ st.streaming.isStreaming # v.isStreaming
               \/ lengthChanged
               \/ LastLength(st) # v.lastLength
            THEN autoScrollEffect(ui, st)
            ELSE ui
      u2 == IF lengthChanged THEN userMessageEffect(u1, st) ELSE u1
  IN [u2 EXCEPT !.view.isStreaming = st.streaming.isStreaming,
                !.view.count = Len(st.messages),
                !.view.lastLength = LastLength(st)]

\* the frame callback of the auto-scroll effect
scrollFrame(ui) ==
  scrollToBottom([ui EXCEPT !.view.rafId = NoHandle], ui.view.count)

\* the user message added and not yet rendered
UnrenderedUserId == IF scrollEvt.kind = "render" THEN NoId ELSE scrollEvt.userId

UiCommit(ui, kind, atBottom) ==
  /\ view' = ui.view
  /\ rafQueue' = ui.rafQueue
  /\ scrollEvt' = [kind |-> kind, atBottom |-> atBottom,
                   before |-> view.isUserScrollingRef, scrolled |-> ui.scrolled,
                   userId |-> UnrenderedUserId]
  /\ UNCHANGED <<messages, streaming, idSeq, lastCall, run, mark,
                 mock, timers, effects, api, runs, aborted, painted, chat>>

\* the store has changed what an effect of the list depends on, and React has
\* not rendered the list again yet: it does at the end of the running task
RenderPending ==
  \/ streaming.isStreaming # view.isStreaming
  \/ Len(messages) # view.count
  \/ LastLength(Store) # view.lastLength

\* the scroll container exists while the list shows messages
Scroll_handleScroll ==
  /\ ~RenderPending
  /\ view.count > 0
  /\ \E parent \in Geometries :
       UiCommit(handleScroll(Ui, parent), "scroll", isAtBottom(parent))

Scroll_render ==
  /\ RenderPending
  /\ UiCommit(render(Ui, Store), "render", TRUE)

Scroll_frame ==
  /\ ~RenderPending
  /\ \E h \in rafQueue :
       UiCommit(scrollFrame([Ui EXCEPT !.rafQueue = @ \ {h}]), "frame", TRUE)

\* a task that calls one store action
Scroll_store ==
  /\ ~RenderPending
  /\ \/ /\ idSeq < MaxListMsgs
        /\ idSeq' = idSeq + 1
        /\ \E now \in Clock :
             \/ \E content \in UserTexts :
                  /\ TotalTokens + Len(content) <= MaxTokens
                  /\ messages' = addUserMessage(Store, nanoid, now, content).messages
                  /\ streaming' = addUserMessage(Store, nanoid, now, content).streaming
                  /\ scrollEvt' = [NoScrollEvt EXCEPT !.kind = "store", !.userId = nanoid]
             \/ /\ messages' = startAssistantMessage(Store, nanoid, now).messages
                /\ streaming' = startAssistantMessage(Store, nanoid, now).streaming
                /\ scrollEvt' = [NoScrollEvt EXCEPT !.kind = "store"]
     \/ /\ UNCHANGED idSeq
        /\ \E st \in {flushStreamBuffer(Store), completeStream(Store), clearMessages(Store)}
                       \cup {appendToStream(Store, chunk) :
                               chunk \in {c \in Chunks : TotalTokens + Len(c) <= MaxTokens}} :
             /\ messages' = st.messages
             /\ streaming' = st.streaming
        /\ scrollEvt' = [NoScrollEvt EXCEPT !.kind = "store"]
  /\ UNCHANGED <<lastCall, run, mark, mock, timers, rafQueue, effects,
                 api, runs, aborted, view, painted, chat>>

\* the store actions of ChatInput's handleSend and handleGenerate, which run
\* in one task: addUserMessage, then the controller's startAssistantMessage
Scroll_send ==
  /\ ~RenderPending
  /\ ~streaming.isStreaming
  /\ idSeq + 1 < MaxListMsgs
  /\ idSeq' = idSeq + 2
  /\ \E now \in Clock, content \in UserTexts \ {EmptyStr} :
       /\ TotalTokens + Len(content) <= MaxTokens
       /\ LET st == startAssistantMessage(addUserMessage(Store, nanoid, now, content),
                                          nanoid + 1, now)
          IN /\ messages' = st.messages
             /\ streaming' = st.streaming
  /\ scrollEvt' = [NoScrollEvt EXCEPT !.kind = "store", !.userId = nanoid]
  /\ UNCHANGED <<lastCall, run, mark, mock, timers, rafQueue, effects,
                 api, runs, aborted, view, painted, chat>>

ScrollNext ==
  \/ Scroll_handleScroll
  \/ Scroll_render
  \/ Scroll_frame
  \/ Scroll_store
  \/ Scroll_send

ScrollSpec == Init /\ [][ScrollNext]_vars

\* ------------------------------------------------------------ row heights
\* estimateSize reads two things of a message: content.length and the number
\* of ``` in content.  A row is a message seen that way.
NoRow == [length |-> -1, fences |-> 0]      \* messages[index] is undefined

\* content lengths on both sides of each corner of the estimate: the empty
\* string, one line, the 100 floor, the 12000 cap (497 lines), the 500 lines
\* where the logarithm starts, the 200000 where the length stops counting
ContentLengths ==
  {0, 1, 80, 81, 800, 801, 39680, 39681, 39760, 39761, 40000, 40001, 40080,
   199920, 200000, 200001, 10000000}

\* ``` counts: none, an unclosed fence, and both sides of the 10 block cap
FenceCounts == {0, 1, 2, 3, 19, 20, 21, 40}

\* a content with n fences is at least 3 * n characters long
Rows ==
  {NoRow} \cup {r \in [length : ContentLengths, fences : FenceCounts] :
                  3 * r.fences <= r.length}

Min(a, b) == IF a <= b THEN a ELSE b
Max(a, b) == IF a >= b THEN a ELSE b

\* Math.ceil(a / b) of non-negative integers
CeilDiv(a, b) == (a + b - 1) \div b

\* the integer part of Math.log10(n), n >= 1.  The fraction is left out: the
\* logarithm is only taken where textHeight is 12000 or more already, and
\* Math.min(12000, ...) gives the same result with and without it
RECURSIVE Log10Floor(_)
Log10Floor(n) == IF n < 10 THEN 0 ELSE 1 + Log10Floor(n \div 10)

\* textHeight without the 500 * 24 the lines before the logarithm stand for
estimateSize_logOnly(message) ==
  IF message = NoRow THEN 100
  ELSE LET effectiveLength == Min(message.length, 200000)
           textLines == CeilDiv(effectiveLength, 80)
           baseHeight == 80
           textHeight == IF textLines > 500
                            THEN Log10Floor(textLines - 499) * 1000
                            ELSE textLines * 24
           codeBlockBonus == (Min(message.fences, 2 * 10) * 150) \div 2
       IN Min(12000, Max(100, baseHeight + textHeight + codeBlockBonus))

\* codeBlockCount is fences / 2, a multiple of one half, and its bonus
\* Math.min(codeBlockCount, 10) * 150 is Math.min(fences, 20) * 150 / 2
estimateSize(message) ==
  IF message = NoRow THEN 100
  ELSE LET effectiveLength == Min(message.length, 200000)
           textLines == CeilDiv(effectiveLength, 80)
           baseHeight == 80
           textHeight == IF textLines > 500
                            THEN 500 * 24 + Log10Floor(textLines - 499) * 1000
                            ELSE textLines * 24
           codeBlockBonus == (Min(message.fences, 2 * 10) * 150) \div 2
       IN Min(12000, Max(100, baseHeight + textHeight + codeBlockBonus))

\* the virtualizer asks for the heights of two rows
EstimateInit ==
  /\ StoreInit
  /\ MockIdle
  /\ ApiIdle
  /\ view = ViewMounted
  /\ scrollEvt = NoScrollEvt
  /\ chat = ChatMounted
  /\ rafQueue = {}
  /\ effects = NoEffects
  /\ \E a \in Rows, b \in Rows :
       painted = [op |-> "rows", a |-> a, b |-> b, sizeA |-> 0, sizeB |-> 0]

Estimate_estimateSize ==
  /\ painted.op = "rows"
  /\ painted' = [painted EXCEPT !.op = "estimateSize",
                                !.sizeA = estimateSize(painted.a),
                                !.sizeB = estimateSize(painted.b)]
  /\ UNCHANGED <<messages, streaming, idSeq, lastCall, run, mark, mock, timers,
                 rafQueue, effects, api, runs, aborted, view, scrollEvt, chat>>

EstimateNext == Estimate_estimateSize

EstimateSpec == EstimateInit /\ [][EstimateNext]_vars

\* ---------------------------------------------------------------- painting
MaxPaintTokens == 8     \* tokens of the content a row paints (8 of "q" are 200000 characters)

LARGE_CONTENT_THRESHOLD == 50000
MAX_RENDER_SIZE == 200000

\* what React is given to paint is a sequence of pieces [tok, n]: n characters
\* of the token's character, in the order of the string; a piece never spans
\* two tokens, so equal sequences are equal strings
RECURSIVE Chars(_)
Chars(s) ==
  IF s = <<>> THEN <<>>
  ELSE <<[tok |-> Head(s), n |-> TokenLen(Head(s))]>> \o Chars(Tail(s))

\* '\n\n... [Content truncated at 200KB for display. Full content preserved in memory.]'
TRUNCATION_NOTICE == <<[tok |-> "notice", n |-> 81]>>

\* String.prototype.slice(0, n) with n >= 0
RECURSIVE Slice(_, _)
Slice(cs, n) ==
  IF cs = <<>> \/ n <= 0 THEN <<>>
  ELSE IF Head(cs).n <= n THEN <<Head(cs)>> \o Slice(Tail(cs), n - Head(cs).n)
  ELSE <<[Head(cs) EXCEPT !.n = n]>>

\* variant: the display is cut at the size that selects the light renderer
displayContent_lightSize(content) ==
  IF StrLen(content) > LARGE_CONTENT_THRESHOLD
  THEN Slice(Chars(content), LARGE_CONTENT_THRESHOLD) \o TRUNCATION_NOTICE
  ELSE Chars(content)

displayContent(content) ==
  IF StrLen(content) > MAX_RENDER_SIZE
  THEN Slice(Chars(content), MAX_RENDER_SIZE) \o TRUNCATION_NOTICE
  ELSE Chars(content)

MessageContent(content, isStreaming) ==
  LET useLightRenderer == StrLen(content) > LARGE_CONTENT_THRESHOLD
  IN [display |-> displayContent(content),
      renderer |-> IF useLightRenderer /\ isStreaming
                   THEN "SimplifiedContent" ELSE "ReactMarkdown"]

ChatMessage(message) ==
  LET isStreaming == message.meta.status = "streaming"
      isEmpty == StrLen(message.content) = 0
  IN IF isEmpty /\ isStreaming
     THEN [display |-> <<>>, renderer |-> "StreamingIndicator"]
     ELSE MessageContent(message.content, isStreaming)

\* the contents a message can have reached when its row is painted
PaintContents == UNION {[1..n -> Tokens] : n \in 0..MaxPaintTokens}

RECURSIVE AppendAll(_, _)
AppendAll(st, content) ==
  IF content = <<>> THEN st
  ELSE AppendAll(appendToStream(st, <<Head(content)>>), Tail(content))

\* the store after one answer was streamed token by token and flushed, and
\* completed or not
Streamed(content, done) ==
  LET created == [messages |-> <<>>,
                  streaming |-> [isStreaming |-> FALSE,
                                 streamingMessageId |-> NoId,
                                 pendingContent |-> EmptyStr]]
      st == flushStreamBuffer(AppendAll(startAssistantMessage(created, 1, 1), content))
  IN IF done THEN completeStream(st) ELSE st

ContentInit ==
  /\ \E content \in PaintContents, done \in BOOLEAN :
       /\ messages = Streamed(content, done).messages
       /\ streaming = Streamed(content, done).streaming
  /\ idSeq = 1
  /\ lastCall = Returned("create", EmptyStr)
  /\ run = NoRun
  /\ mark = NoMark
  /\ EnvIdle

\* React renders the row of a message
Content_render ==
  /\ \E i \in 1..Len(messages) :
       painted' = [op |-> "ChatMessage", index |-> i,
                   display |-> ChatMessage(messages[i]).display,
                   renderer |-> ChatMessage(messages[i]).renderer]
  /\ UNCHANGED <<messages, streaming, idSeq, lastCall, run, mark, mock, timers,
                 rafQueue, effects, api, runs, aborted, view, scrollEvt, chat>>

ContentNext == Content_render

ContentSpec == ContentInit /\ [][ContentNext]_vars

\* ---------------------------------------------------------------- ChatInput
MaxSends == 2           \* controllers ChatInput creates (responses asked for)
MaxResponseWords == 3   \* totalWords of a response (500 and 2000 in the source)

\* the configs handleSend and handleGenerate create their controller with;
\* chunkInterval only sets the pace of the timer
SendConfig == [wordsPerChunk |-> 2, totalWords |-> MaxResponseWords]
GenerateConfig == [wordsPerChunk |-> 3, totalWords |-> MaxResponseWords]

\* 'Generate a demo response with markdown, ...'
DemoText == <<"g">>

\* useChatStore(selectIsStreaming): React renders ChatInput again before the
\* next task runs, so a handler sees the store's value
selectIsStreaming(st) == st.streaming.isStreaming

\* what a handler of ChatInput works on
ChatUi == [sys |-> Sys, chat |-> chat]

\* controller k at work: its closure takes the place of sys.mock
AsController(ui, k) == [ui.sys EXCEPT !.mock = ui.chat.controllers[k]]

\* what a call s into controller k leaves behind: the closure of k, and the
\* timers and frame callbacks it requested run its callbacks
ByController(ui, k, s) ==
  [sys |-> [s EXCEPT !.mock = ui.sys.mock],
   chat |-> [ui.chat EXCEPT
               !.controllers[k] = s.mock,
               !.timerOwner = [h \in s.timers |->
                                 IF h \in ui.sys.timers
                                 THEN ui.chat.timerOwner[h] ELSE k],
               !.rafOwner = [h \in s.rafQueue |->
                               IF h \in ui.sys.rafQueue
                               THEN ui.chat.rafOwner[h] ELSE k]]]

\* createMockStreamingController(config); streamingControllerRef.current =
\* controller; controller.start()
startController(ui, config, id, now) ==
  LET k == Len(ui.chat.controllers) + 1
      created == [ui EXCEPT !.chat.controllers = Append(@, MockCreated(config)),
                            !.chat.ref = k]
  IN ByController(created, k, mockStart(AsController(created, k), id, now))

\* input is input.trim()
handleSend(ui, input, id, now) ==
  IF input = EmptyStr \/ selectIsStreaming(ui.sys.store)
  THEN ui
  ELSE startController(
         [ui EXCEPT !.sys = Called([@ EXCEPT !.store = addUserMessage(@, id, now, input)],
                                   "addUserMessage", input)],
         SendConfig, id + 1, now)

\* variant: handleGenerate has no `if (isStreaming) return`
handleGenerate_noGuard(ui, id, now) ==
  startController(
    [ui EXCEPT !.sys = Called([@ EXCEPT !.store = addUserMessage(@, id, now, DemoText)],
                              "addUserMessage", DemoText)],
    GenerateConfig, id + 1, now)

handleGenerate(ui, id, now) ==
  IF selectIsStreaming(ui.sys.store)
  THEN ui
  ELSE startController(
         [ui EXCEPT !.sys = Called([@ EXCEPT !.store = addUserMessage(@, id, now, DemoText)],
                                   "addUserMessage", DemoText)],
         GenerateConfig, id + 1, now)

\* streamingControllerRef.current?.stop(); streamingControllerRef.current = null
handleStop(ui) ==
  LET k == ui.chat.ref
      stopped == IF k = 0 THEN ui ELSE ByController(ui, k, mockStop(AsController(ui, k)))
  IN [stopped EXCEPT !.chat.ref = 0]

handleClear(ui) ==
  LET stopped == handleStop(ui)
  IN [stopped EXCEPT !.sys = Called([@ EXCEPT !.store = clearMessages(@)],
                                    "clearMessages", EmptyStr)]

\* the state a handler of ChatInput, or a callback of one of its controllers,
\* leaves behind
ChatCommit(ui, handler) ==
  /\ messages' = ui.sys.store.messages
  /\ streaming' = ui.sys.store.streaming
  /\ timers' = ui.sys.timers
  /\ rafQueue' = ui.sys.rafQueue
  /\ chat' = ui.chat
  /\ effects' = [handler |-> handler, calls |-> ui.sys.calls]
  /\ idSeq' = idSeq + Cardinality({c \in 1..Len(ui.sys.calls) :
                                     ui.sys.calls[c].op \in {"addUserMessage",
                                                             "startAssistantMessage"}})
  /\ UNCHANGED <<lastCall, run, mark, mock, api, runs, aborted, view, scrollEvt, painted>>

ChatInit == Init

Chat_handleSend ==
  /\ Len(chat.controllers) < MaxSends
  /\ \E input \in UserTexts, now \in Clock :
       /\ TotalTokens + Len(input) <= MaxTokens
       /\ ChatCommit(handleSend(ChatUi, input, nanoid, now), "handleSend")

Chat_handleGenerate ==
  /\ Len(chat.controllers) < MaxSends
  /\ TotalTokens + Len(DemoText) <= MaxTokens
  /\ \E now \in Clock : ChatCommit(handleGenerate(ChatUi, nanoid, now), "handleGenerate")

Chat_handleStop == ChatCommit(handleStop(ChatUi), "handleStop")

Chat_handleClear == ChatCommit(handleClear(ChatUi), "handleClear")

\* a timer fires: the interval callback of the controller that set it
Chat_interval ==
  \E t \in timers, random \in 0..(BREAK_SPREAD - 1),
     wordChunk \in MockChunks, breakChunk \in MockChunks :
    LET k == chat.timerOwner[t]
        closure == chat.controllers[k]
    IN /\ TotalTokens < MaxTokens
            \/ ~closure.isRunning
            \/ (closure.config.totalWords > 0
                  /\ closure.wordsGenerated >= closure.config.totalWords)
       /\ ChatCommit(ByController(ChatUi, k,
                                  mockInterval(AsController(ChatUi, k),
                                               random, wordChunk, breakChunk)),
                     "interval")

\* a frame begins: the frame callback of the controller that requested it
Chat_rafLoop ==
  \E h \in rafQueue :
    LET k == chat.rafOwner[h]
        taken == [ChatUi EXCEPT !.sys.rafQueue = @ \ {h}]
    IN ChatCommit(ByController(taken, k, mockRafLoop(AsController(taken, k))), "rafLoop")

ChatNext ==
  \/ Chat_handleSend
  \/ Chat_handleGenerate
  \/ Chat_handleStop
  \/ Chat_handleClear
  \/ Chat_interval
  \/ Chat_rafLoop

ChatSpec == ChatInit /\ [][ChatNext]_vars

TypeOK ==
  /\ idSeq \in 0..MaxMsgs
  /\ streaming.isStreaming \in BOOLEAN
  /\ streaming.streamingMessageId \in 0..MaxMsgs
  /\ Len(messages) <= MaxMsgs
  /\ \A i \in 1..Len(messages) :
       /\ messages[i].meta.role \in {"user", "assistant"}
       /\ messages[i].meta.status \in {"complete", "streaming", "error"}

\* ------------------------------------------------------------- properties
StreamingCount ==
  Cardinality({i \in 1..Len(messages) : messages[i].meta.status = "streaming"})

\* C1: a flushStreamBuffer call that follows an earlier flushStreamBuffer call
\* of the same active stream leaves the streaming message's content equal to
\* its content after the earlier flush followed by the chunks appended in
\* between, in call order, and leaves the buffer empty.
C1_FlushMergesInOrder ==
  [][(lastCall'.op = "flushStreamBuffer" /\ mark.valid)
       => /\ StreamingContent' = mark.content \o mark.fragments
          /\ streaming'.pendingContent = EmptyStr]_vars

C1_Witness ==
  /\ lastCall.op = "flushStreamBuffer"
  /\ mark.valid
  /\ Len(mark.appended) >= 2
  /\ Len(mark.content) > Len(mark.appended)
  /\ StreamingContent = mark.content

\* C2: after startAssistantMessage, the appends of the stream and completeStream,
\* the message startAssistantMessage created has status 'complete' and its
\* content is the concatenation of all appended fragments in call order.
C2_CompleteYieldsAllFragments ==
  (lastCall.op = "completeStream" /\ run.id # NoId /\ ~run.open)
    => \E i \in 1..Len(messages) :
         /\ messages[i].meta.id = run.id
         /\ messages[i].meta.status = "complete"
         /\ messages[i].content = run.fragments

C2_Witness ==
  /\ lastCall.op = "completeStream"
  /\ run.id # NoId
  /\ ~run.open
  /\ Len(run.fragments) >= 2
  /\ StrLen(<<Head(run.fragments)>>) > MAX_BUFFER_SIZE
  /\ \E i \in 1..Len(messages) :
       messages[i].meta.id = run.id /\ messages[i].meta.status = "complete"

\* C3: after every store action the pending buffer is no longer than
\* MAX_BUFFER_SIZE.
C3_BufferWithinCeiling ==
  StrLen(streaming.pendingContent) <= MAX_BUFFER_SIZE

\* C4: during an active stream with a non-empty buffer, an appendToStream whose
\* fragment is longer than the ceiling flushes first: afterwards the content
\* holds everything that was buffered and the buffer is the new fragment or
\* empty.
C4_OversizedAppendFlushesFirst ==
  [][(/\ streaming.isStreaming
      /\ streaming.pendingContent # EmptyStr
      /\ lastCall'.op = "appendToStream"
      /\ StrLen(lastCall'.arg) > MAX_BUFFER_SIZE)
       => \/ /\ StreamingContent' = StreamingContent \o streaming.pendingContent
             /\ streaming'.pendingContent = lastCall'.arg
          \/ /\ StreamingContent' =
                  StreamingContent \o streaming.pendingContent \o lastCall'.arg
             /\ streaming'.pendingContent = EmptyStr]_vars

\* C5: while a stream is active, after appendToStream(chunk) the pending buffer
\* is at most MAX_BUFFER_SIZE + length(chunk) long.
C5_BufferOvershootOneFragment ==
  (streaming.isStreaming /\ lastCall.op = "appendToStream")
    => StrLen(streaming.pendingContent) <= MAX_BUFFER_SIZE + StrLen(lastCall.arg)

C5_Witness ==
  /\ streaming.isStreaming
  /\ lastCall.op = "appendToStream"
  /\ StrLen(streaming.pendingContent) > MAX_BUFFER_SIZE
  /\ StrLen(StreamingContent) > MAX_BUFFER_SIZE

\* C6: flushStreamBuffer is idempotent (right after a flush, a second flush
\* changes nothing) and is a no-op whenever the buffer is empty or there is no
\* streamingMessageId.
C6_FlushIdempotent ==
  /\ lastCall.op = "flushStreamBuffer" => flushStreamBuffer(Store) = Store
  /\ (streaming.pendingContent = EmptyStr \/ streaming.streamingMessageId = NoId)
       => flushStreamBuffer(Store) = Store

C6_Witness ==
  /\ lastCall.op = "flushStreamBuffer"
  /\ streaming.isStreaming
  /\ mark.valid
  /\ mark.content # EmptyStr
  /\ StreamingContent = mark.content

\* C7: at most one message has status 'streaming'.
C7_SingleStreaming == StreamingCount <= 1

\* C8: startAssistantMessage during an active stream fails with InvalidState
\* and leaves messages, the active-stream reference and the buffer unchanged.
C8_StartWhileActiveRejected ==
  [][(streaming.isStreaming /\ lastCall'.op = "startAssistantMessage")
       => /\ lastCall'.outcome = "InvalidState"
          /\ messages' = messages
          /\ streaming' = streaming]_vars

\* C9: appendToStream with no active stream fails with InvalidState and leaves
\* the pending buffer and all messages unchanged.
C9_AppendWhileIdleRejected ==
  [][(~streaming.isStreaming /\ lastCall'.op = "appendToStream")
       => /\ lastCall'.outcome = "InvalidState"
          /\ streaming'.pendingContent = streaming.pendingContent
          /\ messages' = messages]_vars

\* C10: a message whose status is 'complete' keeps its content and its status
\* under every store action other than clearMessages.
C10_CompleteFrozen ==
  [][lastCall'.op # "clearMessages"
       => \A i \in 1..Len(messages) :
            messages[i].meta.status = "complete"
              => /\ i <= Len(messages')
                 /\ messages'[i].meta.id = messages[i].meta.id
                 /\ messages'[i].meta.status = "complete"
                 /\ messages'[i].content = messages[i].content]_vars

C10_Witness ==
  /\ ~streaming.isStreaming
  /\ lastCall.op = "appendToStream"
  /\ streaming.pendingContent # EmptyStr
  /\ \E i \in 1..Len(messages) :
       /\ messages[i].meta.role = "assistant"
       /\ messages[i].meta.status = "complete"
       /\ messages[i].content # EmptyStr

IsPrefix(a, b) == Len(a) <= Len(b) /\ SubSeq(b, 1, Len(a)) = a

\* C11: message content is append-only: under every store action other than
\* clearMessages each message present before is present after, and its old
\* content is a prefix of its new content.
C11_ContentAppendOnly ==
  [][lastCall'.op # "clearMessages"
       => \A i \in 1..Len(messages) :
            /\ i <= Len(messages')
            /\ messages'[i].meta.id = messages[i].meta.id
            /\ IsPrefix(messages[i].content, messages'[i].content)]_vars

C11_Witness ==
  /\ streaming.isStreaming
  /\ lastCall.op = "flushStreamBuffer"
  /\ Len(StreamingContent) >= 2
  /\ StreamingContent[1] # StreamingContent[2]

\* C12: only the flush changes the content of an existing message: an
\* appendToStream whose buffer is at or under the ceiling leaves the message
\* list unchanged and only extends pendingContent by the chunk; addUserMessage
\* and startAssistantMessage leave every existing message as it was, and the
\* status update of completeStream leaves the contents the flush produced.
C12_OnlyFlushChangesContent ==
  [][/\ (lastCall'.op = "appendToStream"
           /\ StrLen(streaming.pendingContent) <= MAX_BUFFER_SIZE)
          => /\ messages' = messages
             /\ streaming' = [streaming EXCEPT !.pendingContent = @ \o lastCall'.arg]
     /\ lastCall'.op \in {"addUserMessage", "startAssistantMessage"}
          => /\ Len(messages') = Len(messages) + 1
             /\ \A i \in 1..Len(messages) : messages'[i] = messages[i]
     /\ lastCall'.op \in {"completeStream", "stopStream"}
          => /\ Len(messages') = Len(messages)
             /\ \A i \in 1..Len(messages) :
                  messages'[i].content = flushStreamBuffer(Store).messages[i].content]_vars

C12_Witness ==
  /\ streaming.isStreaming
  /\ lastCall.op = "appendToStream"
  /\ Len(streaming.pendingContent) >= 2
  /\ \E i \in 1..Len(messages) :
       messages[i].meta.role = "assistant" /\ messages[i].content # EmptyStr

\* C13: completeStream with no active stream returns normally and changes
\* neither the messages nor the streaming state, so a second completeStream
\* right after a first one changes nothing.
C13_CompleteIdleNoOp ==
  /\ ~streaming.isStreaming => completeStream(Store) = Store
  /\ lastCall.op = "completeStream"
       => /\ lastCall.outcome = "returned"
          /\ completeStream(Store) = Store

C13_Witness ==
  /\ lastCall.op = "completeStream"
  /\ ~streaming.isStreaming
  /\ streaming.pendingContent # EmptyStr
  /\ \E i \in 1..Len(messages) :
       messages[i].meta.role = "assistant" /\ messages[i].meta.status = "complete"

\* C14: whenever no stream is active the pending buffer is empty and detached.
C14_IdleBufferEmpty ==
  ~streaming.isStreaming
    => /\ streaming.pendingContent = EmptyStr
       /\ streaming.streamingMessageId = NoId

\* the message startAssistantMessage created for the current run
RunMessages == {i \in 1..Len(messages) : messages[i].meta.id = run.id}

\* C15: stop() of the mock controller clears the timer, cancels the pending
\* frame callback and then calls completeStream (final flush, then status), in
\* that order and in the one call; afterwards no timer and no frame callback
\* of the controller is left, the store is not touched until the next start(),
\* and the completed message holds every fragment appended before the stop.
C15_StopHaltsThenCompletes ==
  /\ [](/\ (effects.calls # <<>> /\ effects.calls[Len(effects.calls)].op = "completeStream")
            => /\ Ops(effects.calls) =
                    <<"clearInterval", "cancelAnimationFrame", "completeStream">>
               /\ \E i \in RunMessages :
                    /\ messages[i].meta.status = "complete"
                    /\ messages[i].content = run.fragments
        /\ ~mock.isRunning => (timers = {} /\ rafQueue = {}))
  /\ [][(~mock.isRunning /\ ~mock'.isRunning)
          => UNCHANGED <<messages, streaming>>]_vars

C15_Witness ==
  /\ effects.handler = "stop"
  /\ Ops(effects.calls) = <<"clearInterval", "cancelAnimationFrame", "completeStream">>
  /\ Len(run.fragments) >= 2
  /\ \E i \in RunMessages :
       messages[i].meta.status = "complete" /\ messages[i].content = run.fragments

\* C16: for a run of the mock controller, under every interleaving of timer
\* ticks, frame callbacks, ceiling-forced flushes and the stop, the chunks
\* passed to appendToStream are, in order, the content followed by the buffer
\* while the run lasts and the content of the completed message afterwards.
C16_RunKeepsEveryChunk ==
  run.id # NoId
    => \E i \in RunMessages :
         IF run.open
         THEN /\ messages[i].meta.status = "streaming"
              /\ messages[i].content \o streaming.pendingContent = run.fragments
         ELSE /\ messages[i].meta.status = "complete"
              /\ messages[i].content = run.fragments

C16_Witness ==
  /\ ~mock.isRunning
  /\ run.id # NoId
  /\ ~run.open
  /\ Len(run.fragments) >= 3
  /\ StrLen(<<run.fragments[1]>>) > MAX_BUFFER_SIZE
  /\ \E i \in RunMessages : messages[i].content = run.fragments

\* C17: a run of the API controller that failed in transport (fetch rejected,
\* HTTP error, no body, read error, abort by stop()) has called completeStream
\* and the message that run created has status 'complete'.
C17_FailedRunCompletesItsMessage ==
  \A r \in 1..Len(runs) :
    runs[r].pc = "done"
      => \E i \in 1..Len(messages) :
           /\ messages[i].meta.id = runs[r].msgId
           /\ messages[i].meta.status = "complete"

\* C18: a 'data: ' line that is not valid JSON or has no delta content, and a
\* line without the 'data: ' prefix, cause no appendToStream call and do not
\* end the run, and the deltas of the well-formed lines are all appended in
\* order: a reading run has appended exactly the deltas of the well-formed
\* lines the server has sent, and a read that delivers data leaves it reading.
C18_MalformedLinesSkipped ==
  /\ [](\A r \in 1..Len(runs) :
          runs[r].pc = "read"
            => runs[r].appended = DeltasOf(SplitLines(runs[r].sent, <<>>)))
  /\ [][\A r \in 1..Len(runs) :
          (runs[r].pc = "read" /\ Len(runs'[r].sent) > Len(runs[r].sent))
            => runs'[r].pc = "read"]_vars

C18_Witness ==
  \E r \in 1..Len(runs) :
    /\ runs[r].pc = "read"
    /\ runs[r].sent = <<"P", "X", "N", "P", "Jq", "N">>
    /\ runs[r].appended = <<"q">>

\* C19: at every moment at most one requestAnimationFrame flush loop of a
\* controller is pending.
C19_SingleFlushLoop == Cardinality(rafQueue) <= 1

\* C20: a scroll event handled while the state is followingBottom with
\* atBottom false leaves the state free, and one handled while the state is
\* free with atBottom true leaves it followingBottom, whatever came before.
C20_ScrollEventTransitions ==
  scrollEvt.kind = "scroll"
    => /\ (~scrollEvt.before /\ ~scrollEvt.atBottom) => view.isUserScrollingRef
       /\ (scrollEvt.before /\ scrollEvt.atBottom) => ~view.isUserScrollingRef

\* C21: the render that follows the append of a user message leaves the
\* state followingBottom (isUserScrollingRef false) and has scrolled to the
\* last message, or has requested the frame that does.
C21_UserMessageForcesFollowing ==
  (scrollEvt.kind = "render" /\ scrollEvt.userId # NoId)
    => /\ ~view.isUserScrollingRef
       /\ scrollEvt.scrolled \/ view.rafId # NoHandle

\* C22: a frame callback of the auto-scroll effect that runs while the state
\* is free (isUserScrollingRef true) does not execute scrollToBottom.
C22_NoForcedScrollWhileFree ==
  (scrollEvt.kind = "frame" /\ scrollEvt.before) => ~scrollEvt.scrolled

\* C23: an addUserMessage call appends exactly one message at the end, with
\* the returned id, role 'user', status 'complete' and the given content, and
\* leaves the messages before it and the streaming state as they were, also
\* while a stream is active.
C23_AddUserMessageFrame ==
  [][(lastCall'.op = "addUserMessage" /\ idSeq' # idSeq)
       => /\ lastCall'.outcome = "returned"
          /\ Len(messages') = Len(messages) + 1
          /\ SubSeq(messages', 1, Len(messages)) = messages
          /\ messages'[Len(messages')].meta.id = nanoid
          /\ messages'[Len(messages')].meta.role = "user"
          /\ messages'[Len(messages')].meta.status = "complete"
          /\ messages'[Len(messages')].content = lastCall'.arg
          /\ streaming' = streaming]_vars

C23_Witness ==
  /\ lastCall.op = "addUserMessage"
  /\ Len(messages) = 2
  /\ messages[2].meta.role = "user"
  /\ streaming.isStreaming
  /\ streaming.pendingContent # EmptyStr

\* C24: a startAssistantMessage call made while no stream is active appends
\* exactly one message at the end, with the returned id, role 'assistant',
\* status 'streaming' and empty content, leaves the messages before it as they
\* were, and leaves isStreaming true, streamingMessageId the returned id and
\* the pending buffer empty.
C24_StartAssistantMessageIdle ==
  [][(lastCall'.op = "startAssistantMessage" /\ idSeq' # idSeq
        /\ ~streaming.isStreaming)
       => /\ Len(messages') = Len(messages) + 1
          /\ SubSeq(messages', 1, Len(messages)) = messages
          /\ messages'[Len(messages')].meta.id = nanoid
          /\ messages'[Len(messages')].meta.role = "assistant"
          /\ messages'[Len(messages')].meta.status = "streaming"
          /\ messages'[Len(messages')].content = EmptyStr
          /\ streaming' = [isStreaming |-> TRUE, streamingMessageId |-> nanoid,
                           pendingContent |-> EmptyStr]]_vars

C24_Witness ==
  /\ lastCall.op = "startAssistantMessage"
  /\ Len(messages) = 2
  /\ StreamingCount = 1
  /\ messages[2].meta.status = "streaming"
  /\ messages[1].content # EmptyStr

\* C25: after a clearMessages call there are no messages, isStreaming is
\* false, streamingMessageId is null and the pending buffer is empty, whatever
\* the state before it was.
C25_ClearYieldsInitialState ==
  lastCall.op = "clearMessages"
    => /\ lastCall.outcome = "returned"
       /\ messages = <<>>
       /\ streaming = [isStreaming |-> FALSE, streamingMessageId |-> NoId,
                       pendingContent |-> EmptyStr]

C25_Witness ==
  /\ lastCall.op = "clearMessages"
  /\ idSeq = MaxMsgs
  /\ messages = <<>>

WordTicksLeft ==
  CHOOSE n \in 0..mock.config.totalWords :
    /\ mock.wordsGenerated + n * mock.config.wordsPerChunk >= mock.config.totalWords
    /\ \A k \in 0..(n - 1) :
         mock.wordsGenerated + k * mock.config.wordsPerChunk < mock.config.totalWords

\* C27: a running mock controller with totalWords > 0 and wordsPerChunk > 0
\* (and room for its chunks within MaxTokens) stops under fair timer ticks,
\* with its message 'complete' and isActive() false; one with totalWords = 0
\* stops only by stop(), and every tick of it appends a chunk.
C27_WordBudgetHonoured ==
  /\ (/\ mock.isRunning
      /\ mock.config.totalWords > 0
      /\ mock.config.wordsPerChunk > 0
      /\ TotalTokens + WordTicksLeft <= MaxTokens)
       ~> (/\ ~mock.isRunning
           /\ \A i \in RunMessages : messages[i].meta.status = "complete")
  /\ [][(mock.config.totalWords = 0 /\ mock.isRunning)
         => /\ ~mock'.isRunning => effects'.handler = "stop"
            /\ effects'.handler = "interval"
                 => Ops(effects'.calls) = <<"appendToStream">>]_vars

C27_Witness ==
  /\ effects.handler = "interval"
  /\ Ops(effects.calls) = <<"clearInterval", "cancelAnimationFrame", "completeStream">>
  /\ mock.config.totalWords > 0
  /\ mock.wordsGenerated >= mock.config.totalWords
  /\ ~mock.isRunning
  /\ \E i \in RunMessages : messages[i].meta.status = "complete"

\* C28: the height estimateSize gives a row lies within [100, 12000], for every
\* content length (0 and 10,000,000 among them), every number of code fences and
\* a missing message; of two rows with the same number of fences the longer one
\* is estimated no lower; and fences beyond the twentieth (ten blocks) add nothing
C28_EstimateMonotoneBounded ==
  painted.op = "estimateSize" =>
    /\ 100 <= painted.sizeA /\ painted.sizeA <= 12000
    /\ 100 <= painted.sizeB /\ painted.sizeB <= 12000
    /\ (/\ painted.a # NoRow /\ painted.b # NoRow
        /\ painted.a.fences = painted.b.fences
        /\ painted.a.length <= painted.b.length) => painted.sizeA <= painted.sizeB
    /\ (/\ painted.a # NoRow /\ painted.b # NoRow
        /\ painted.a.length = painted.b.length
        /\ painted.a.fences >= 20 /\ painted.b.fences >= 20) => painted.sizeA = painted.sizeB

C28_Witness ==
  /\ painted.op = "estimateSize"
  /\ painted.a = [length |-> 40000, fences |-> 2]
  /\ painted.b = [length |-> 10000000, fences |-> 2]
  /\ painted.sizeA = 12000
  /\ painted.sizeB = 12000

\* the characters of a sequence of pieces
RECURSIVE PiecesLen(_)
PiecesLen(ps) == IF ps = <<>> THEN 0 ELSE Head(ps).n + PiecesLen(Tail(ps))

\* ps is the string cs cut after some character
IsPrefixOf(ps, cs) ==
  /\ Len(ps) <= Len(cs)
  /\ \A k \in 1..Len(ps) :
       /\ ps[k].tok = cs[k].tok
       /\ IF k < Len(ps) THEN ps[k].n = cs[k].n ELSE ps[k].n \in 1..cs[k].n

\* C30: rendering a row leaves the store as it is, whichever renderer is
\* selected, and the string MessageContent displays is the stored content when
\* that has at most 200,000 characters, and otherwise its first 200,000
\* characters followed by the truncation notice
C30_RenderingKeepsContent ==
  [][painted'.op = "ChatMessage" /\ painted'.renderer # "StreamingIndicator"
       => /\ messages' = messages
          /\ streaming' = streaming
          /\ painted'.renderer \in {"SimplifiedContent", "ReactMarkdown"}
          /\ LET content == messages[painted'.index].content
                 display == painted'.display
             IN IF StrLen(content) <= 200000
                THEN display = Chars(content)
                ELSE /\ Len(display) > 1
                     /\ display[Len(display)] = TRUNCATION_NOTICE[1]
                     /\ PiecesLen(SubSeq(display, 1, Len(display) - 1)) = 200000
                     /\ IsPrefixOf(SubSeq(display, 1, Len(display) - 1), Chars(content))]_vars

C30_Witness ==
  /\ painted.op = "ChatMessage"
  /\ painted.renderer = "SimplifiedContent"
  /\ messages[painted.index].content = <<"H", "H", "H", "H">>
  /\ painted.display = <<[tok |-> "H", n |-> 60000], [tok |-> "H", n |-> 60000],
                         [tok |-> "H", n |-> 60000], [tok |-> "H", n |-> 20000],
                         [tok |-> "notice", n |-> 81]>>

\* C31: an appendToStream call that finds the pending buffer longer than 50,000
\* characters during an active stream merges exactly the buffer as it was
\* before the call into the streaming message, and leaves exactly the new
\* chunk in the buffer.
C31_ForcedFlushThenFreshBuffer ==
  [][(/\ lastCall'.op = "appendToStream"
      /\ streaming.streamingMessageId # NoId
      /\ StreamingIndex # 0
      /\ StrLen(streaming.pendingContent) > MAX_BUFFER_SIZE)
       => /\ messages'[StreamingIndex].content
               = StreamingContent \o streaming.pendingContent
          /\ streaming'.pendingContent = lastCall'.arg
          /\ streaming'.streamingMessageId = streaming.streamingMessageId]_vars

\* no flushStreamBuffer call was made since the stream began (mark is unset),
\* so the content was merged by the append
C31_Witness ==
  /\ lastCall = Returned("appendToStream", <<"q">>)
  /\ run.open
  /\ ~mark.valid
  /\ StreamingContent = <<"H">>
  /\ streaming.pendingContent = <<"q">>

\* C32: in every state of the store, isStreaming is true if and only if
\* streamingMessageId is not null.
C32_FlagIffReference ==
  streaming.isStreaming <=> streaming.streamingMessageId # NoId

C32_Witness ==
  /\ lastCall.op = "clearMessages"
  /\ run = NoRun
  /\ idSeq > 0
  /\ ~streaming.isStreaming
  /\ streaming.streamingMessageId = NoId

\* C33: in every state of the store, a non-null streamingMessageId is the id of
\* exactly one message, and that message is an assistant message with status
\* 'streaming'.
C33_ReferenceHasOneStreamingTarget ==
  streaming.streamingMessageId # NoId
    => /\ Cardinality({i \in 1..Len(messages) :
                         messages[i].meta.id = streaming.streamingMessageId}) = 1
       /\ \A i \in 1..Len(messages) :
            messages[i].meta.id = streaming.streamingMessageId
              => /\ messages[i].meta.role = "assistant"
                 /\ messages[i].meta.status = "streaming"

C33_Witness ==
  /\ streaming.streamingMessageId = 2
  /\ Len(messages) = 2
  /\ messages[1].meta.role = "user"
  /\ messages[2].content # EmptyStr
  /\ streaming.pendingContent # EmptyStr

\* C34: the content of the message the last startAssistantMessage created is
\* made of text passed to appendToStream after that call only: it is a prefix
\* of the chunks appended since, and together with the pending buffer it is
\* exactly those chunks while the stream lasts; right after the call the
\* content and the buffer are empty.
C34_NoLeakAcrossMessages ==
  /\ \A i \in RunMessages :
       /\ IsPrefix(messages[i].content, run.fragments)
       /\ (run.open /\ streaming.streamingMessageId = run.id)
            => messages[i].content \o streaming.pendingContent = run.fragments
  /\ lastCall.op = "startAssistantMessage"
       => /\ streaming.pendingContent = EmptyStr
          /\ \A i \in RunMessages : messages[i].content = EmptyStr

\* a second stream was started while the first one was active and held text
C34_Witness ==
  /\ run.id = 2
  /\ Len(messages) = 2
  /\ messages[1].meta.status = "streaming"
  /\ messages[1].content = <<"q">>
  /\ messages[2].content = <<"H">>
  /\ run.fragments = <<"H">>

\* C39: start() of a running mock controller and stop() of a mock controller
\* that is not running (never started, stopped, or ended by its word budget)
\* make no call at all: no message, timer or frame callback is added and
\* completeStream is not called; the controller never has more than one timer
\* and one frame callback.
C39_StartStopGuarded ==
  /\ [](Cardinality(timers) <= 1 /\ Cardinality(rafQueue) <= 1)
  /\ [][/\ (effects'.handler = "start" /\ mock.isRunning)
             => /\ effects'.calls = <<>>
                /\ UNCHANGED <<messages, streaming, idSeq, mock, timers, rafQueue>>
        /\ (effects'.handler = "stop" /\ ~mock.isRunning)
             => /\ effects'.calls = <<>>
                /\ UNCHANGED <<messages, streaming, idSeq, mock, timers, rafQueue>>]_vars

\* stop() was called on a controller its word budget had ended
C39_Witness ==
  /\ effects = [handler |-> "stop", calls |-> <<>>]
  /\ ~mock.isRunning
  /\ mock.config.totalWords > 0
  /\ mock.wordsGenerated >= mock.config.totalWords
  /\ \A i \in RunMessages : messages[i].meta.status = "complete"
  /\ RunMessages # {}

\* the controllers ChatInput created that are running
RunningControllers ==
  {k \in 1..Len(chat.controllers) : chat.controllers[k].isRunning}

\* C40: between the handlers of ChatInput (send, generate, stop, clear) and the
\* timer and frame callbacks of its controllers, exactly one controller is
\* running if the store's isStreaming is true and none otherwise, at most one
\* message has status 'streaming', and a 'streaming' message is the last one.
C40_OneStreamOneController ==
  /\ Cardinality(RunningControllers) = (IF streaming.isStreaming THEN 1 ELSE 0)
  /\ StreamingCount <= 1
  /\ \A i \in 1..Len(messages) :
       messages[i].meta.status = "streaming" => i = Len(messages)
  /\ streaming.isStreaming => RunningControllers = {chat.ref}

\* a second response streams after the first one ended by its word budget
C40_Witness ==
  /\ Len(chat.controllers) = 2
  /\ ~chat.controllers[1].isRunning
  /\ chat.controllers[1].wordsGenerated >= chat.controllers[1].config.totalWords
  /\ chat.controllers[2].isRunning
  /\ streaming.isStreaming
  /\ Len(messages) = 4
  /\ messages[2].meta.status = "complete"
  /\ messages[4].meta.status = "streaming"

\* the message run r of the API controller created
RunMessageOf(r) ==
  {i \in 1..Len(messages) : messages[i].meta.id = runs[r].msgId}

\* C35: the completion handler of a run of the API controller completes only
\* the message of its own run and clears only its own run's isRunning flag:
\* while a run has not reached its handler its message is 'streaming', and
\* while it was not stopped either the controller is running, also when stop()
\* is followed by start() before the handler of the aborted run executes.
C35_HandlerEndsItsOwnRun ==
  \A r \in 1..Len(runs) :
    runs[r].pc # "done"
      => /\ \E i \in RunMessageOf(r) : messages[i].meta.status = "streaming"
         /\ r \notin aborted => api.isRunning

\* what run r appends when the text arrives in one read
OneRead(r, text) ==
  AppendedBy(apiReadSettled([Sys EXCEPT !.runs[r].buffer = EmptyStr],
                            r, "value", text).calls)

AllDeltas(text) == DeltasOf(SplitLines(text, <<>>) \o <<EmptyStr>>)

\* C37: when the body reader reports done, the message of the run holds the
\* delta of every well-formed 'data: ' line of the body, also of a last line
\* that no newline follows (one run, never stopped).
C37_LastLineWithoutNewline ==
  [][(/\ Len(runs) = 1
      /\ aborted = {}
      /\ runs[1].pc = "read"
      /\ runs'[1].pc = "done")
       => \E i \in RunMessageOf(1) : messages'[i].content = AllDeltas(runs[1].sent)]_vars

\* the complete lines run r finds in the read that took it from sent to sent'
NewLines(r) ==
  LET chunk == SubSeq(runs'[r].sent, Len(runs[r].sent) + 1, Len(runs'[r].sent))
      pieces == SplitLines(runs[r].buffer \o chunk, <<>>)
  IN SubSeq(pieces, 1, Len(pieces) - 1)

\* C38: a read that delivers the line 'data: [DONE]' makes no append for it
\* and does not end the run: the run goes on reading, no message changes its
\* status, the controller stays as it was, and the deltas of the lines of that
\* read, those after the marker included, are appended.
C38_DoneMarkerSkipped ==
  [][\A r \in 1..Len(runs) :
       (/\ runs[r].pc = "read"
        /\ r <= Len(runs')
        /\ Len(runs'[r].sent) > Len(runs[r].sent)
        /\ \E l \in 1..Len(NewLines(r)) : NewLines(r)[l] = <<"P", "E">>)
         => /\ runs'[r].pc = "read"
            /\ api' = api
            /\ Len(messages') = Len(messages)
            /\ \A i \in 1..Len(messages) : messages'[i].meta = messages[i].meta
            /\ runs'[r].appended
                 = runs[r].appended \o DeltasOf(NewLines(r) \o <<EmptyStr>>)]_vars

\* the marker and the delta line after it have arrived
C38_Witness ==
  \E r \in 1..Len(runs) :
    /\ runs[r].pc = "read"
    /\ runs[r].sent = <<"P", "Z", "N", "N", "Jq", "N", "P", "E", "N", "P", "JH", "N">>
    /\ runs[r].appended = <<"H">>
    /\ \E i \in RunMessageOf(r) :
         /\ messages[i].meta.status = "streaming"
         /\ (messages[i].content = <<"H">> \/ streaming.pendingContent = <<"H">>)

====
